---- MODULE Spec2Model ----
(***************************************************************************)
(* The Node programs of the tutorial, as state machines over a small file  *)
(* system:                                                                 *)
(*   write-files/node/src/index.ts  reads hello.txt and world.txt, joins   *)
(*                                  them and writes hello-world.txt        *)
(*   read-files/node/src/index.ts   opens, stats, reads and prints         *)
(*                                  hello.txt                              *)
(* A JavaScript string is a sequence of code points, a file a sequence of  *)
(* bytes; readFileSync(..., 'utf8') / buffer.toString() decode UTF-8 and   *)
(* writeFileSync(path, string) encodes it.                                 *)
(***************************************************************************)
EXTENDS Integers, Sequences, FiniteSets, TLC

(***************************************************************************)
(* Bounds                                                                  *)
(***************************************************************************)
\* longest generated file content, in bytes
MaxLen == 2

(***************************************************************************)
(* Strings and bytes                                                       *)
(***************************************************************************)
\* U+FFFD REPLACEMENT CHARACTER, what the decoder emits for a malformed sequence
ReplacementChar == 65533

\* the value of a declared but unassigned variable (`let hello: string;`)
Undefined == <<-1>>

\* "Hello" and "world" as UTF-8 bytes (= their code points, all ASCII)
HelloBytes == <<72, 101, 108, 108, 111>>
WorldBytes == <<119, 111, 114, 108, 100>>

\* the literals of the template `${hello} ${world}!`
Space == <<32>>
Bang == <<33>>

\* the generated contents are drawn from an ASCII byte and a byte that is
\* never valid in UTF-8
GenBytes == {97, 255}

RECURSIVE SeqsUpTo(_, _)
SeqsUpTo(S, n) ==
  IF n = 0 THEN {<<>>}
  ELSE LET shorter == SeqsUpTo(S, n - 1)
       IN  shorter \cup {Append(s, x) : s \in {t \in shorter : Len(t) = n - 1}, x \in S}

\* contents a file may have when a program starts: the tutorial's two words,
\* a two-byte character (U+00E9), a truncated two-byte character, a BOM
\* followed by a letter, and every sequence over GenBytes up to MaxLen
Contents ==
  {HelloBytes, WorldBytes, <<195, 169>>, <<97, 195>>, <<239, 187, 191, 97>>}
    \cup SeqsUpTo(GenBytes, MaxLen)

\* number of continuation bytes a lead byte announces (-1: not a lead byte)
Utf8Needed(b) ==
  IF b <= 127 THEN 0
  ELSE IF b >= 194 /\ b <= 223 THEN 1
  ELSE IF b >= 224 /\ b <= 239 THEN 2
  ELSE IF b >= 240 /\ b <= 244 THEN 3
  ELSE -1

\* range allowed for the first continuation byte after lead byte b
Utf8Lower(b) == IF b = 224 THEN 160 ELSE IF b = 240 THEN 144 ELSE 128
Utf8Upper(b) == IF b = 237 THEN 159 ELSE IF b = 244 THEN 143 ELSE 191

\* bits of the code point carried by lead byte b
Utf8LeadBits(b) ==
  IF b <= 127 THEN b
  ELSE IF b <= 223 THEN b - 192
  ELSE IF b <= 239 THEN b - 224
  ELSE b - 240

\* UTF-8 decoding with replacement of every maximal malformed subpart by
\* U+FFFD, as buffer.toString('utf8') does; nothing makes it fail.
\* s: bytes left, needed: continuation bytes still expected, cp: code point
\* so far, lo..hi: range of the next continuation byte
RECURSIVE Utf8DecodeFrom(_, _, _, _, _)
Utf8DecodeFrom(s, needed, cp, lo, hi) ==
  IF s = <<>> THEN (IF needed = 0 THEN <<>> ELSE <<ReplacementChar>>)
  ELSE LET b == Head(s) IN
    IF needed = 0
    THEN IF Utf8Needed(b) = 0 THEN <<b>> \o Utf8DecodeFrom(Tail(s), 0, 0, 128, 191)
         ELSE IF Utf8Needed(b) = -1
              THEN <<ReplacementChar>> \o Utf8DecodeFrom(Tail(s), 0, 0, 128, 191)
              ELSE Utf8DecodeFrom(Tail(s), Utf8Needed(b), Utf8LeadBits(b),
                                  Utf8Lower(b), Utf8Upper(b))
    ELSE IF b < lo \/ b > hi
         THEN <<ReplacementChar>> \o Utf8DecodeFrom(s, 0, 0, 128, 191)
         ELSE IF needed = 1
              THEN <<cp * 64 + (b - 128)>> \o Utf8DecodeFrom(Tail(s), 0, 0, 128, 191)
              ELSE Utf8DecodeFrom(Tail(s), needed - 1, cp * 64 + (b - 128), 128, 191)

Utf8Decode(bytes) == Utf8DecodeFrom(bytes, 0, 0, 128, 191)

\* UTF-8 encoding of one code point
Utf8EncodeChar(c) ==
  IF c < 128 THEN <<c>>
  ELSE IF c < 2048 THEN <<192 + (c \div 64), 128 + (c % 64)>>
  ELSE IF c < 65536
       THEN <<224 + (c \div 4096), 128 + ((c \div 64) % 64), 128 + (c % 64)>>
       ELSE <<240 + (c \div 262144), 128 + ((c \div 4096) % 64),
              128 + ((c \div 64) % 64), 128 + (c % 64)>>

\* UTF-8 encoding of a string, as writeFileSync(path, string) does
RECURSIVE Utf8Encode(_)
Utf8Encode(str) ==
  IF str = <<>> THEN <<>> ELSE Utf8EncodeChar(Head(str)) \o Utf8Encode(Tail(str))

(***************************************************************************)
(* The file system                                                         *)
(***************************************************************************)
HelloTxt == "hello.txt"
WorldTxt == "world.txt"
HelloWorldTxt == "hello-world.txt"

Paths == {HelloTxt, WorldTxt, HelloWorldTxt}

\* a path that names no file
Absent == [exists |-> FALSE, readable |-> FALSE, writable |-> FALSE, bytes |-> <<>>]

File(bytes, r, w) == [exists |-> TRUE, readable |-> r, writable |-> w, bytes |-> bytes]

\* the error object a failed fs call throws (err.code, err.syscall, err.path;
\* err.message is built from the three)
NoErr == [code |-> "", syscall |-> "", path |-> ""]
Err(code, syscall, path) == [code |-> code, syscall |-> syscall, path |-> path]

\* what opening a path for reading throws, NoErr when it succeeds
OpenReadErr(files, path) ==
  IF ~files[path].exists THEN Err("ENOENT", "open", path)
  ELSE IF ~files[path].readable THEN Err("EACCES", "open", path)
  ELSE NoErr

\* what opening a path with flag 'w' throws, NoErr when it succeeds
OpenWriteErr(files, path) ==
  IF files[path].exists /\ ~files[path].writable THEN Err("EACCES", "open", path)
  ELSE NoErr

\* [mutant of Truncated] the file opened without O_TRUNC (flag 'r+' for 'w')
KeepContent(f) == IF f.exists THEN f ELSE File(<<>>, TRUE, TRUE)

\* the file after open(path, 'w'): created if missing, truncated if present
Truncated(f) == IF f.exists THEN [f EXCEPT !.bytes = <<>>] ELSE File(<<>>, TRUE, TRUE)

(***************************************************************************)
(* State                                                                   *)
(***************************************************************************)
VARIABLES
  program,     \* which program the process runs
  argv,        \* the arguments after the script name on the command line
  fs,          \* the file system: path -> file
  pc,          \* position of the process in its script
  hello,       \* write-files: let hello
  world,       \* write-files: let world
  helloWorld,  \* write-files: let helloWorld
  stdout,      \* what console.log has printed, in order
  thrown,      \* the value of the uncaught throw that ended the script
  status,      \* "running", "exit0", "exit1" (process.exit(1)), "uncaught"
  fileDescriptor, \* read-files: let fileDescriptor
  stat,        \* read-files: let stat
  buffer,      \* read-files: const buffer
  data,        \* read-files: let data
  calls,       \* the fs calls made so far, in order, each with its error
  fs0,         \* the file system as it was when the process started
  run,         \* how many times the script has been started (1 or 2)
  first,       \* what the first run ended with, once a second run has begun
  config,      \* two processes: how their file names resolve
  cfs,         \* two processes: the file system, resource -> file
  cfs0,        \* two processes: the file system when they started
  procs,       \* two processes: the state of each
  res,         \* HTTP: the response passed to the callback of get
  rest,        \* HTTP: the bytes of the body that have not arrived yet
  chunks,      \* HTTP: the chunks the 'data' events delivered, in order
  buf,         \* HTTP: let buf
  repositories \* parse-json: const repositories

\* the variables of the write-files script and of the read-files script
wfVars == <<hello, world, helloWorld>>
rfVars == <<fileDescriptor, stat, buffer, data>>

\* the variables of the second run and of the two concurrent processes
rerunVars == <<run, first>>
concVars == <<config, cfs, cfs0, procs>>

\* the variables of the two HTTP scripts
httpVars == <<res, rest, chunks, buf, repositories>>

vars == <<program, argv, fs, pc, wfVars, rfVars, stdout, thrown, status, calls, fs0,
          rerunVars, concVars, httpVars>>

\* a console.log line or a thrown string: the literal part of the template,
\* the err whose message is interpolated and the string interpolated
Msg(text, err, str) == [text |-> text, err |-> err, str |-> str]
NoMsg == Msg("", NoErr, <<>>)

Call(fn, path, err) == [fn |-> fn, path |-> path, err |-> err]

\* the errors readFileSync(path, 'utf8') can end with (NoErr: it returns the
\* decoded content): opening fails, or the device fails while reading
ReadFileSyncErrs(files, path) ==
  IF OpenReadErr(files, path) # NoErr THEN {OpenReadErr(files, path)}
  ELSE {NoErr, Err("EIO", "read", path)}

\* the file after writing bytes at offset 0: they replace the bytes that
\* were there, and what lay beyond them stays
WriteAt0(f, bytes) ==
  [f EXCEPT !.bytes = bytes \o SubSeq(f.bytes, Len(bytes) + 1, Len(f.bytes))]

\* [mutant of WriteFileSyncOutcomes] appendFileSync for writeFileSync
AppendFileSyncOutcomes(files, path, bytes) ==
  IF OpenWriteErr(files, path) # NoErr
  THEN {[err |-> OpenWriteErr(files, path), file |-> files[path]]}
  ELSE {[err |-> NoErr,
         file |-> [KeepContent(files[path]) EXCEPT !.bytes = @ \o bytes]]}
       \cup {[err |-> Err(code, "write", path),
               file |-> [KeepContent(files[path]) EXCEPT !.bytes = @ \o SubSeq(bytes, 1, k)]] :
               code \in {"ENOSPC", "EIO"}, k \in 0..(Len(bytes) - 1)}

\* the ways writeFileSync(path, bytes) can end, each with the file it leaves:
\* the open fails and the file is untouched; the file is created/truncated
\* and everything is written; or the device fails after k bytes
WriteFileSyncOutcomes(files, path, bytes) ==
  IF OpenWriteErr(files, path) # NoErr
  THEN {[err |-> OpenWriteErr(files, path), file |-> files[path]]}
  ELSE {[err |-> NoErr, file |-> WriteAt0(Truncated(files[path]), bytes)]}
       \cup {[err |-> Err(code, "write", path),
               file |-> WriteAt0(Truncated(files[path]), SubSeq(bytes, 1, k))] :
               code \in {"ENOSPC", "EIO"}, k \in 0..(Len(bytes) - 1)}

(***************************************************************************)
(* write-files/node/src/index.ts                                           *)
(***************************************************************************)
\* [mutant of HelloWorld] separator and suffix taken from the command line
HelloWorldFromArgv(h, w) ==
  IF Len(argv) = 2 THEN h \o argv[1] \o w \o argv[2] ELSE h \o Space \o w \o Bang

\* [mutant of HelloWorld] the suffix forgotten
HelloWorldNoBang(h, w) == h \o Space \o w

\* `${hello} ${world}!`
HelloWorld(h, w) == h \o Space \o w \o Bang

\* [mutant of Throw] process.exit(1) in place of the throw
ExitInsteadOfThrow(text) ==
  /\ thrown' = thrown
  /\ status' = "exit1"
  /\ pc' = "done"

\* [mutant of Throw] the failure kept as a value, the process left running
ReturnFailure(text) ==
  /\ thrown' = Msg(text, NoErr, <<>>)
  /\ status' = "running"
  /\ pc' = "done"

\* the uncaught `throw "<text>"`: Node reports the string and ends the process
Throw(text) ==
  /\ thrown' = Msg(text, NoErr, <<>>)
  /\ status' = "uncaught"
  /\ pc' = "done"

\* [mutant of ReadHello] the catch block does not leave the script
ReadHelloContinue ==
  /\ program = "write-files" /\ pc = "readHello"
  /\ \E err \in ReadFileSyncErrs(fs, HelloTxt) :
       /\ calls' = Append(calls, Call("readFileSync", HelloTxt, err))
       /\ hello' = IF err = NoErr THEN Utf8Decode(fs[HelloTxt].bytes) ELSE hello
       /\ pc' = "readWorld"
       /\ UNCHANGED <<thrown, status>>
  /\ UNCHANGED <<program, argv, fs, world, helloWorld, rfVars, stdout, fs0, rerunVars, concVars, httpVars>>

\* [mutant of ReadHello] world.txt is not read after hello.txt
ReadHelloSkipsWorld ==
  /\ program = "write-files" /\ pc = "readHello"
  /\ \E err \in ReadFileSyncErrs(fs, HelloTxt) :
       /\ calls' = Append(calls, Call("readFileSync", HelloTxt, err))
       /\ IF err = NoErr
          THEN /\ hello' = Utf8Decode(fs[HelloTxt].bytes)
               /\ pc' = "compose"
               /\ UNCHANGED <<thrown, status>>
          ELSE /\ Throw("Couldn't read 'hello.txt'.")
               /\ UNCHANGED hello
  /\ UNCHANGED <<program, argv, fs, world, helloWorld, rfVars, stdout, fs0, rerunVars, concVars, httpVars>>

\* [mutant of ReadHello] a missing hello.txt is waited for
ReadHelloBusyWait ==
  /\ program = "write-files" /\ pc = "readHello"
  /\ \E err \in ReadFileSyncErrs(fs, HelloTxt) :
       IF err = NoErr
       THEN /\ calls' = Append(calls, Call("readFileSync", HelloTxt, err))
            /\ hello' = Utf8Decode(fs[HelloTxt].bytes)
            /\ pc' = "readWorld"
            /\ UNCHANGED <<thrown, status>>
       ELSE IF err.code = "ENOENT"
       THEN UNCHANGED <<calls, hello, pc, thrown, status>>
       ELSE /\ calls' = Append(calls, Call("readFileSync", HelloTxt, err))
            /\ Throw("Couldn't read 'hello.txt'.")
            /\ UNCHANGED hello
  /\ UNCHANGED <<program, argv, fs, world, helloWorld, rfVars, stdout, fs0, rerunVars, concVars, httpVars>>

\* lines 3-8
ReadHello ==
  /\ program = "write-files" /\ pc = "readHello"
  /\ \E err \in ReadFileSyncErrs(fs, HelloTxt) :
       /\ calls' = Append(calls, Call("readFileSync", HelloTxt, err))
       /\ IF err = NoErr
          THEN /\ hello' = Utf8Decode(fs[HelloTxt].bytes)
               /\ pc' = "readWorld"
               /\ UNCHANGED <<thrown, status>>
          ELSE /\ Throw("Couldn't read 'hello.txt'.")
               /\ UNCHANGED hello
  /\ UNCHANGED <<program, argv, fs, world, helloWorld, rfVars, stdout, fs0, rerunVars, concVars, httpVars>>

\* [mutant of ReadWorld] the catch block swallows the error
ReadWorldSwallow ==
  /\ program = "write-files" /\ pc = "readWorld"
  /\ \E err \in ReadFileSyncErrs(fs, WorldTxt) :
       /\ calls' = Append(calls, Call("readFileSync", WorldTxt, err))
       /\ world' = IF err = NoErr THEN Utf8Decode(fs[WorldTxt].bytes) ELSE world
       /\ pc' = "compose"
       /\ UNCHANGED <<thrown, status>>
  /\ UNCHANGED <<program, argv, fs, hello, helloWorld, rfVars, stdout, fs0, rerunVars, concVars, httpVars>>

\* [mutant of ReadWorld] the catch block copied from the first read
ReadWorldWrongStage ==
  /\ program = "write-files" /\ pc = "readWorld"
  /\ \E err \in ReadFileSyncErrs(fs, WorldTxt) :
       /\ calls' = Append(calls, Call("readFileSync", WorldTxt, err))
       /\ IF err = NoErr
          THEN /\ world' = Utf8Decode(fs[WorldTxt].bytes)
               /\ pc' = "compose"
               /\ UNCHANGED <<thrown, status>>
          ELSE /\ Throw("Couldn't read 'hello.txt'.")
               /\ UNCHANGED world
  /\ UNCHANGED <<program, argv, fs, hello, helloWorld, rfVars, stdout, fs0, rerunVars, concVars, httpVars>>

\* [mutant of ReadWorld] the catch block saves what was read so far
ReadWorldPartialWrite ==
  /\ program = "write-files" /\ pc = "readWorld"
  /\ \E err \in ReadFileSyncErrs(fs, WorldTxt) :
       /\ calls' = Append(calls, Call("readFileSync", WorldTxt, err))
       /\ IF err = NoErr
          THEN /\ world' = Utf8Decode(fs[WorldTxt].bytes)
               /\ pc' = "compose"
               /\ UNCHANGED <<fs, thrown, status>>
          ELSE /\ fs' = [fs EXCEPT ![HelloWorldTxt] =
                           WriteAt0(Truncated(fs[HelloWorldTxt]), Utf8Encode(hello))]
               /\ Throw("Couldn't read 'world.txt'.")
               /\ UNCHANGED world
  /\ UNCHANGED <<program, argv, hello, helloWorld, rfVars, stdout, fs0, rerunVars, concVars, httpVars>>

\* lines 10-15
ReadWorld ==
  /\ program = "write-files" /\ pc = "readWorld"
  /\ \E err \in ReadFileSyncErrs(fs, WorldTxt) :
       /\ calls' = Append(calls, Call("readFileSync", WorldTxt, err))
       /\ IF err = NoErr
          THEN /\ world' = Utf8Decode(fs[WorldTxt].bytes)
               /\ pc' = "compose"
               /\ UNCHANGED <<thrown, status>>
          ELSE /\ Throw("Couldn't read 'world.txt'.")
               /\ UNCHANGED world
  /\ UNCHANGED <<program, argv, fs, hello, helloWorld, rfVars, stdout, fs0, rerunVars, concVars, httpVars>>

\* [mutant of Compose] composing rejects text that held malformed UTF-8
ComposeMayThrow ==
  /\ program = "write-files" /\ pc = "compose"
  /\ IF \E i \in DOMAIN hello : hello[i] = ReplacementChar
     THEN /\ Throw("Couldn't compose.")
          /\ UNCHANGED helloWorld
     ELSE /\ helloWorld' = HelloWorld(hello, world)
          /\ pc' = "write"
          /\ UNCHANGED <<thrown, status>>
  /\ UNCHANGED <<program, argv, fs, hello, world, rfVars, stdout, calls, fs0, rerunVars, concVars, httpVars>>

\* line 17
Compose ==
  /\ program = "write-files" /\ pc = "compose"
  /\ helloWorld' = HelloWorld(hello, world)
  /\ pc' = "write"
  /\ UNCHANGED <<program, argv, fs, hello, world, rfVars, stdout, thrown, status, calls, fs0, rerunVars, concVars, httpVars>>

\* [mutant of WriteHelloWorld] the catch block swallows the error
WriteHelloWorldSwallow ==
  /\ program = "write-files" /\ pc = "write"
  /\ \E out \in WriteFileSyncOutcomes(fs, HelloWorldTxt, Utf8Encode(helloWorld)) :
       /\ calls' = Append(calls, Call("writeFileSync", HelloWorldTxt, out.err))
       /\ fs' = [fs EXCEPT ![HelloWorldTxt] = out.file]
       /\ pc' = "log"
       /\ UNCHANGED <<thrown, status>>
  /\ UNCHANGED <<program, argv, hello, world, helloWorld, rfVars, stdout, fs0, rerunVars, concVars, httpVars>>

\* [mutant of WriteHelloWorld] the result written over world.txt
WriteHelloWorldWrongPath ==
  /\ program = "write-files" /\ pc = "write"
  /\ \E out \in WriteFileSyncOutcomes(fs, WorldTxt, Utf8Encode(helloWorld)) :
       /\ calls' = Append(calls, Call("writeFileSync", WorldTxt, out.err))
       /\ fs' = [fs EXCEPT ![WorldTxt] = out.file]
       /\ IF out.err = NoErr
          THEN /\ pc' = "log"
               /\ UNCHANGED <<thrown, status>>
          ELSE Throw("Couldn't write 'hello-world.txt'.")
  /\ UNCHANGED <<program, argv, hello, world, helloWorld, rfVars, stdout, fs0, rerunVars, concVars, httpVars>>

\* [mutant of WriteHelloWorld] a failed write is tried once more
WriteHelloWorldRetry ==
  /\ program = "write-files" /\ pc = "write"
  /\ \E out \in WriteFileSyncOutcomes(fs, HelloWorldTxt, Utf8Encode(helloWorld)) :
       /\ calls' = Append(calls, Call("writeFileSync", HelloWorldTxt, out.err))
       /\ fs' = [fs EXCEPT ![HelloWorldTxt] = out.file]
       /\ IF out.err = NoErr
          THEN /\ pc' = "log"
               /\ UNCHANGED <<thrown, status>>
          ELSE IF Len(calls) < 3
               THEN UNCHANGED <<pc, thrown, status>>
               ELSE Throw("Couldn't write 'hello-world.txt'.")
  /\ UNCHANGED <<program, argv, hello, world, helloWorld, rfVars, stdout, fs0, rerunVars, concVars, httpVars>>

\* lines 19-23
WriteHelloWorld ==
  /\ program = "write-files" /\ pc = "write"
  /\ \E out \in WriteFileSyncOutcomes(fs, HelloWorldTxt, Utf8Encode(helloWorld)) :
       /\ calls' = Append(calls, Call("writeFileSync", HelloWorldTxt, out.err))
       /\ fs' = [fs EXCEPT ![HelloWorldTxt] = out.file]
       /\ IF out.err = NoErr
          THEN /\ pc' = "log"
               /\ UNCHANGED <<thrown, status>>
          ELSE Throw("Couldn't write 'hello-world.txt'.")
  /\ UNCHANGED <<program, argv, hello, world, helloWorld, rfVars, stdout, fs0, rerunVars, concVars, httpVars>>

\* [mutant of LogWrote] the message is logged twice
LogWroteTwice ==
  /\ program = "write-files" /\ pc = "log"
  /\ stdout' = stdout \o << Msg("Wrote file 'hello-world.txt' with content: ", NoErr, helloWorld),
                            Msg("Wrote file 'hello-world.txt' with content: ", NoErr, helloWorld) >>
  /\ pc' = "done"
  /\ status' = "exit0"
  /\ UNCHANGED <<program, argv, fs, wfVars, rfVars, thrown, calls, fs0, rerunVars, concVars, httpVars>>

\* line 25
LogWrote ==
  /\ program = "write-files" /\ pc = "log"
  /\ stdout' = Append(stdout, Msg("Wrote file 'hello-world.txt' with content: ",
                                  NoErr, helloWorld))
  /\ pc' = "done"
  /\ status' = "exit0"
  /\ UNCHANGED <<program, argv, fs, wfVars, rfVars, thrown, calls, fs0, rerunVars, concVars, httpVars>>

(***************************************************************************)
(* read-files/node/src/index.ts, lines 1-36                                *)
(***************************************************************************)
\* the file descriptor openSync returns to a process that has only the
\* three standard streams open
FirstFd == 3

\* no file descriptor / no Stats object yet
NoFd == -1
NoStat == [size |-> -1]

\* longest string V8 builds; buffer.toString() throws beyond it
StringMaxLength == 268435440

\* Buffer.alloc(n): n zero bytes
Zeros(n) == [i \in 1..n |-> 0]

\* the errors fstatSync(fd) and readSync(fd, ...) can end with on an open
\* descriptor: none, or the device fails
FdErrs(syscall) == {NoErr, Err("EIO", syscall, "")}

\* [mutant of ReadInto] the last of the length bytes is not copied
ReadIntoOneShort(into, bytes, length) ==
  [i \in 1..Len(into) |-> IF i < length /\ i <= Len(bytes) THEN bytes[i] ELSE into[i]]

\* the buffer after readSync(fd, into, 0, length, null) on a file holding
\* bytes: the first length bytes of the file (or all of them if it is
\* shorter) are copied to its start and the rest of it is left alone
ReadInto(into, bytes, length) ==
  [i \in 1..Len(into) |-> IF i <= length /\ i <= Len(bytes) THEN bytes[i] ELSE into[i]]

\* the errors buffer.toString() can end with
ToStringErrs(bytes) ==
  IF Len(bytes) > StringMaxLength THEN {Err("ERR_STRING_TOO_LONG", "toString", "")}
  ELSE {NoErr}

\* [mutant of LogAndExit] the message logged without err.message
LogAndExitNoCause(text, err) ==
  /\ stdout' = Append(stdout, Msg(text, NoErr, <<>>))
  /\ status' = "exit1"
  /\ pc' = "done"

\* [mutant of LogAndExit] process.exit(0) after the message
LogAndExitZero(text, err) ==
  /\ stdout' = Append(stdout, Msg(text, err, <<>>))
  /\ status' = "exit0"
  /\ pc' = "done"

\* console.log(`<text>${err.message}`); process.exit(1);
LogAndExit(text, err) ==
  /\ stdout' = Append(stdout, Msg(text, err, <<>>))
  /\ status' = "exit1"
  /\ pc' = "done"

\* lines 3-9
OpenHello ==
  /\ program = "read-files" /\ pc = "open"
  /\ LET err == OpenReadErr(fs, HelloTxt) IN
       /\ calls' = Append(calls, Call("openSync", HelloTxt, err))
       /\ IF err = NoErr
          THEN /\ fileDescriptor' = FirstFd
               /\ pc' = "stat"
               /\ UNCHANGED <<stdout, status>>
          ELSE /\ LogAndExit("Couldn't open: ", err)
               /\ UNCHANGED fileDescriptor
  /\ UNCHANGED <<program, argv, fs, wfVars, stat, buffer, data, thrown, fs0, rerunVars, concVars, httpVars>>

\* lines 11-17
StatHello ==
  /\ program = "read-files" /\ pc = "stat"
  /\ \E err \in FdErrs("fstat") :
       /\ calls' = Append(calls, Call("fstatSync", HelloTxt, err))
       /\ IF err = NoErr
          THEN /\ stat' = [size |-> Len(fs[HelloTxt].bytes)]
               /\ pc' = "alloc"
               /\ UNCHANGED <<stdout, status>>
          ELSE /\ LogAndExit("Couldn't get stat: ", err)
               /\ UNCHANGED stat
  /\ UNCHANGED <<program, argv, fs, wfVars, fileDescriptor, buffer, data, thrown, fs0, rerunVars, concVars, httpVars>>

\* line 19
AllocBuffer ==
  /\ program = "read-files" /\ pc = "alloc"
  /\ buffer' = Zeros(stat.size)
  /\ pc' = "read"
  /\ UNCHANGED <<program, argv, fs, wfVars, fileDescriptor, stat, data, stdout,
                 thrown, status, calls, fs0, rerunVars, concVars, httpVars>>

\* [mutant of ReadBuffer] the catch block logs and does not exit
ReadBufferNoExit ==
  /\ program = "read-files" /\ pc = "read"
  /\ \E err \in FdErrs("read") :
       /\ calls' = Append(calls, Call("readSync", HelloTxt, err))
       /\ pc' = "convert"
       /\ IF err = NoErr
          THEN /\ buffer' = ReadInto(buffer, fs[HelloTxt].bytes, stat.size)
               /\ UNCHANGED <<stdout, status>>
          ELSE /\ stdout' = Append(stdout, Msg("Couldn't read: ", err, <<>>))
               /\ UNCHANGED <<buffer, status>>
  /\ UNCHANGED <<program, argv, fs, wfVars, fileDescriptor, stat, data, thrown, fs0, rerunVars, concVars, httpVars>>

\* lines 21-26
ReadBuffer ==
  /\ program = "read-files" /\ pc = "read"
  /\ \E err \in FdErrs("read") :
       /\ calls' = Append(calls, Call("readSync", HelloTxt, err))
       /\ IF err = NoErr
          THEN /\ buffer' = ReadInto(buffer, fs[HelloTxt].bytes, stat.size)
               /\ pc' = "convert"
               /\ UNCHANGED <<stdout, status>>
          ELSE /\ LogAndExit("Couldn't read: ", err)
               /\ UNCHANGED buffer
  /\ UNCHANGED <<program, argv, fs, wfVars, fileDescriptor, stat, data, thrown, fs0, rerunVars, concVars, httpVars>>

\* lines 28-34
ConvertBuffer ==
  /\ program = "read-files" /\ pc = "convert"
  /\ \E err \in ToStringErrs(buffer) :
       IF err = NoErr
       THEN /\ data' = Utf8Decode(buffer)
            /\ pc' = "log"
            /\ UNCHANGED <<stdout, status>>
       ELSE /\ LogAndExit("Couldn't convert buffer to string: ", err)
            /\ UNCHANGED data
  /\ UNCHANGED <<program, argv, fs, wfVars, fileDescriptor, stat, buffer, thrown,
                 calls, fs0, rerunVars, concVars, httpVars>>

\* line 36
LogContent ==
  /\ program = "read-files" /\ pc = "log"
  /\ stdout' = Append(stdout, Msg("Content is: ", NoErr, data))
  /\ pc' = "done"
  /\ status' = "exit0"
  /\ UNCHANGED <<program, argv, fs, wfVars, rfVars, thrown, calls, fs0, rerunVars, concVars, httpVars>>

(***************************************************************************)
(* Specification                                                           *)
(***************************************************************************)
\* command lines: no arguments, or a separator "-" and a suffix "?"
Argvs == {<<>>, <<<<45>>, <<63>>>>}

\* a file the program reads: missing, unreadable or readable
InputFiles == {Absent} \cup {File(c, r, TRUE) : c \in Contents, r \in BOOLEAN}

\* a file the program writes: missing, read-only or writable
OutputFiles == {Absent} \cup {File(c, TRUE, w) : c \in Contents, w \in BOOLEAN}

\* no response yet
NoRes == [statusCode |-> -1]

\* the process makes no HTTP request
NoHttp ==
  res = NoRes /\ rest = <<>> /\ chunks = <<>> /\ buf = Undefined /\ repositories = <<>>

\* no first run has ended yet
NoRun == [status |-> "none", helloWorld |-> Undefined, out |-> Absent, stdout |-> <<>>]

InitWriteFiles ==
  /\ program = "write-files"
  /\ argv \in Argvs
  /\ \E h \in InputFiles, w \in InputFiles, o \in OutputFiles :
       fs = [p \in Paths |-> IF p = HelloTxt THEN h ELSE IF p = WorldTxt THEN w ELSE o]
  /\ pc = "readHello"

\* read-files touches hello.txt only
InitReadFiles ==
  /\ program = "read-files"
  /\ argv = <<>>
  /\ \E h \in InputFiles :
       fs = [p \in Paths |-> IF p = HelloTxt THEN h ELSE Absent]
  /\ pc = "open"

Init ==
  /\ InitWriteFiles \/ InitReadFiles
  /\ hello = Undefined /\ world = Undefined /\ helloWorld = Undefined
  /\ fileDescriptor = NoFd /\ stat = NoStat /\ buffer = <<>> /\ data = Undefined
  /\ stdout = <<>>
  /\ thrown = NoMsg
  /\ status = "running"
  /\ calls = <<>>
  /\ fs0 = fs
  /\ NoHttp
  /\ run = 1 /\ first = NoRun
  /\ config = "none" /\ cfs = <<>> /\ cfs0 = <<>> /\ procs = <<>>

Next ==
  \/ ReadHello
  \/ ReadWorld
  \/ Compose
  \/ WriteHelloWorld
  \/ LogWrote
  \/ OpenHello
  \/ StatHello
  \/ AllocBuffer
  \/ ReadBuffer
  \/ ConvertBuffer
  \/ LogContent

Spec == Init /\ [][Next]_vars

\* write-files started a second time in the same directory, once the first
\* process has ended: a new process, with the files the first run left
Rerun ==
  /\ program = "write-files" /\ pc = "done" /\ run = 1
  /\ run' = 2
  /\ first' = [status |-> status, helloWorld |-> helloWorld,
               out |-> fs[HelloWorldTxt], stdout |-> stdout]
  /\ pc' = "readHello"
  /\ hello' = Undefined /\ world' = Undefined /\ helloWorld' = Undefined
  /\ stdout' = <<>>
  /\ thrown' = NoMsg
  /\ status' = "running"
  /\ calls' = <<>>
  /\ fs0' = fs
  /\ UNCHANGED <<program, argv, fs, rfVars, concVars, httpVars>>

NextRerun == Next \/ Rerun

SpecRerun == Init /\ [][NextRerun]_vars

(***************************************************************************)
(* write-files run by two processes at once                                *)
(*                                                                         *)
(* The script names its files relative to the working directory.  Process  *)
(* 1 runs in directory a; process 2 runs in a as well, or in directory b,  *)
(* where its files are b's own or hard links to those of a.  The steps are *)
(* those of the script above; writeFileSync is taken apart into its open   *)
(* (create or truncate) and its write, between which the other process may *)
(* run.                                                                    *)
(***************************************************************************)
Procs == {1, 2}
Other(p) == 3 - p

Configs == {"same-dir", "separate", "shared-inputs", "linked-output"}

\* the file a name stands for in directory d
InDir(d, name) ==
  IF d = "a"
  THEN (IF name = HelloTxt THEN "a/hello.txt"
        ELSE IF name = WorldTxt THEN "a/world.txt" ELSE "a/hello-world.txt")
  ELSE (IF name = HelloTxt THEN "b/hello.txt"
        ELSE IF name = WorldTxt THEN "b/world.txt" ELSE "b/hello-world.txt")

Resources == {InDir(d, name) : d \in {"a", "b"}, name \in Paths}

\* the file that process p reaches under a name of the script
Resolve(p, name) ==
  IF p = 1 \/ config = "same-dir" THEN InDir("a", name)
  ELSE IF config = "separate" THEN InDir("b", name)
  ELSE IF config = "shared-inputs"
       THEN (IF name = HelloWorldTxt THEN InDir("b", name) ELSE InDir("a", name))
       ELSE (IF name = HelloWorldTxt THEN InDir("a", name) ELSE InDir("b", name))

\* a process at the start of the script
InitProc ==
  [pc |-> "readHello", hello |-> Undefined, world |-> Undefined,
   helloWorld |-> Undefined, stdout |-> <<>>, thrown |-> NoMsg,
   status |-> "running", calls |-> <<>>]

\* the uncaught `throw "<text>"` in process state pr
CThrow(pr, text) ==
  [pr EXCEPT !.thrown = Msg(text, NoErr, <<>>), !.status = "uncaught", !.pc = "done"]

CCalled(pr, fn, name, err) == [pr EXCEPT !.calls = Append(@, Call(fn, name, err))]

\* lines 3-8
CReadHello(p) ==
  /\ config # "none" /\ procs[p].pc = "readHello"
  /\ \E err \in ReadFileSyncErrs(cfs, Resolve(p, HelloTxt)) :
       LET pr == CCalled(procs[p], "readFileSync", HelloTxt, err) IN
       procs' = [procs EXCEPT ![p] =
                   IF err = NoErr
                   THEN [pr EXCEPT !.hello = Utf8Decode(cfs[Resolve(p, HelloTxt)].bytes),
                                   !.pc = "readWorld"]
                   ELSE CThrow(pr, "Couldn't read 'hello.txt'.")]
  /\ UNCHANGED <<program, argv, fs, pc, wfVars, rfVars, stdout, thrown, status, calls,
                 fs0, rerunVars, httpVars, config, cfs, cfs0>>

\* lines 10-15
CReadWorld(p) ==
  /\ config # "none" /\ procs[p].pc = "readWorld"
  /\ \E err \in ReadFileSyncErrs(cfs, Resolve(p, WorldTxt)) :
       LET pr == CCalled(procs[p], "readFileSync", WorldTxt, err) IN
       procs' = [procs EXCEPT ![p] =
                   IF err = NoErr
                   THEN [pr EXCEPT !.world = Utf8Decode(cfs[Resolve(p, WorldTxt)].bytes),
                                   !.pc = "compose"]
                   ELSE CThrow(pr, "Couldn't read 'world.txt'.")]
  /\ UNCHANGED <<program, argv, fs, pc, wfVars, rfVars, stdout, thrown, status, calls,
                 fs0, rerunVars, httpVars, config, cfs, cfs0>>

\* [mutant of CCompose] hello kept in a variable the two runs share
CComposeShared(p) ==
  /\ config # "none" /\ procs[p].pc = "compose"
  /\ LET h == IF procs[Other(p)].hello # Undefined THEN procs[Other(p)].hello
              ELSE procs[p].hello
     IN procs' = [procs EXCEPT ![p] =
                    [@ EXCEPT !.helloWorld = HelloWorld(h, procs[p].world),
                              !.pc = "write"]]
  /\ UNCHANGED <<program, argv, fs, pc, wfVars, rfVars, stdout, thrown, status, calls,
                 fs0, rerunVars, httpVars, config, cfs, cfs0>>

\* line 17
CCompose(p) ==
  /\ config # "none" /\ procs[p].pc = "compose"
  /\ procs' = [procs EXCEPT ![p] =
                 [@ EXCEPT !.helloWorld = HelloWorld(procs[p].hello, procs[p].world),
                           !.pc = "write"]]
  /\ UNCHANGED <<program, argv, fs, pc, wfVars, rfVars, stdout, thrown, status, calls,
                 fs0, rerunVars, httpVars, config, cfs, cfs0>>

\* [mutant of COpenOutput] the output file locked from its open to the end
\* of the write
COpenOutputLocked(p) ==
  /\ config # "none" /\ procs[p].pc = "write"
  /\ ~(procs[Other(p)].pc = "writing"
         /\ Resolve(Other(p), HelloWorldTxt) = Resolve(p, HelloWorldTxt))
  /\ LET path == Resolve(p, HelloWorldTxt)
         err == OpenWriteErr(cfs, path)
     IN IF err = NoErr
        THEN /\ cfs' = [cfs EXCEPT ![path] = Truncated(cfs[path])]
             /\ procs' = [procs EXCEPT ![p] = [@ EXCEPT !.pc = "writing"]]
        ELSE /\ procs' = [procs EXCEPT ![p] =
                            CThrow(CCalled(procs[p], "writeFileSync", HelloWorldTxt, err),
                                   "Couldn't write 'hello-world.txt'.")]
             /\ UNCHANGED cfs
  /\ UNCHANGED <<program, argv, fs, pc, wfVars, rfVars, stdout, thrown, status, calls,
                 fs0, rerunVars, httpVars, config, cfs0>>

\* lines 19-23, first half: writeFileSync opens the file with flag 'w'
COpenOutput(p) ==
  /\ config # "none" /\ procs[p].pc = "write"
  /\ LET path == Resolve(p, HelloWorldTxt)
         err == OpenWriteErr(cfs, path)
     IN IF err = NoErr
        THEN /\ cfs' = [cfs EXCEPT ![path] = Truncated(cfs[path])]
             /\ procs' = [procs EXCEPT ![p] = [@ EXCEPT !.pc = "writing"]]
        ELSE /\ procs' = [procs EXCEPT ![p] =
                            CThrow(CCalled(procs[p], "writeFileSync", HelloWorldTxt, err),
                                   "Couldn't write 'hello-world.txt'.")]
             /\ UNCHANGED cfs
  /\ UNCHANGED <<program, argv, fs, pc, wfVars, rfVars, stdout, thrown, status, calls,
                 fs0, rerunVars, httpVars, config, cfs0>>

\* lines 19-23, second half: writeFileSync writes from offset 0; everything
\* is written, or the device fails after k bytes
CWriteOutput(p) ==
  /\ config # "none" /\ procs[p].pc = "writing"
  /\ LET path == Resolve(p, HelloWorldTxt)
         bytes == Utf8Encode(procs[p].helloWorld)
     IN \/ /\ cfs' = [cfs EXCEPT ![path] = WriteAt0(cfs[path], bytes)]
           /\ procs' = [procs EXCEPT ![p] =
                          [CCalled(procs[p], "writeFileSync", HelloWorldTxt, NoErr)
                             EXCEPT !.pc = "log"]]
        \/ \E code \in {"ENOSPC", "EIO"}, k \in 0..(Len(bytes) - 1) :
             /\ cfs' = [cfs EXCEPT ![path] = WriteAt0(cfs[path], SubSeq(bytes, 1, k))]
             /\ procs' = [procs EXCEPT ![p] =
                            CThrow(CCalled(procs[p], "writeFileSync", HelloWorldTxt,
                                           Err(code, "write", path)),
                                   "Couldn't write 'hello-world.txt'.")]
  /\ UNCHANGED <<program, argv, fs, pc, wfVars, rfVars, stdout, thrown, status, calls,
                 fs0, rerunVars, httpVars, config, cfs0>>

\* line 25
CLogWrote(p) ==
  /\ config # "none" /\ procs[p].pc = "log"
  /\ procs' = [procs EXCEPT ![p] =
                 [@ EXCEPT !.stdout = Append(@, Msg("Wrote file 'hello-world.txt' with content: ",
                                                   NoErr, procs[p].helloWorld)),
                           !.pc = "done",
                           !.status = "exit0"]]
  /\ UNCHANGED <<program, argv, fs, pc, wfVars, rfVars, stdout, thrown, status, calls,
                 fs0, rerunVars, httpVars, config, cfs, cfs0>>

\* one step of process p
CStep(p) ==
  \/ CReadHello(p)
  \/ CReadWorld(p)
  \/ CCompose(p)
  \/ COpenOutput(p)
  \/ CWriteOutput(p)
  \/ CLogWrote(p)

\* input files of the two processes: missing, "H" or "ww"
ConcInputs == {Absent, File(<<72>>, TRUE, TRUE), File(<<119, 119>>, TRUE, TRUE)}

\* output files of the two processes: missing, or seven bytes "x", writable
\* or read-only
ConcOutputs ==
  {Absent} \cup {File(<<120, 120, 120, 120, 120, 120, 120>>, TRUE, w) : w \in BOOLEAN}

\* the files that exist in directory b under each configuration: none when
\* both processes run in a, and none under the names that are links to a
ConcFiles(cfg, r) ==
  IF r \in {InDir("a", HelloTxt), InDir("a", WorldTxt)} THEN ConcInputs
  ELSE IF r = InDir("a", HelloWorldTxt) THEN ConcOutputs
  ELSE IF r = InDir("b", HelloWorldTxt)
       THEN (IF cfg \in {"separate", "shared-inputs"} THEN ConcOutputs ELSE {Absent})
       ELSE (IF cfg \in {"separate", "linked-output"} THEN ConcInputs ELSE {Absent})

InitConc ==
  /\ program = "write-files x2"
  /\ argv = <<>>
  /\ fs = [p \in Paths |-> Absent]
  /\ pc = "done"
  /\ hello = Undefined /\ world = Undefined /\ helloWorld = Undefined
  /\ fileDescriptor = NoFd /\ stat = NoStat /\ buffer = <<>> /\ data = Undefined
  /\ stdout = <<>>
  /\ thrown = NoMsg
  /\ status = "running"
  /\ calls = <<>>
  /\ fs0 = fs
  /\ NoHttp
  /\ run = 1 /\ first = NoRun
  /\ config \in Configs
  /\ cfs \in {f \in [Resources -> ConcInputs \cup ConcOutputs] :
                \A r \in Resources : f[r] \in ConcFiles(config, r)}
  /\ cfs0 = cfs
  /\ procs = [p \in Procs |-> InitProc]

NextConc ==
  \/ \E p \in Procs : CReadHello(p)
  \/ \E p \in Procs : CReadWorld(p)
  \/ \E p \in Procs : CCompose(p)
  \/ \E p \in Procs : COpenOutput(p)
  \/ \E p \in Procs : CWriteOutput(p)
  \/ \E p \in Procs : CLogWrote(p)

SpecConc == InitConc /\ [][NextConc]_vars

\* the script is synchronous: as long as each fs call returns, the process
\* goes on to its next statement
\* Whether a run ends does not depend on what the output file held nor on
\* the command line, so the runs checked for it start without arguments
\* and with the output file missing, writable or read-only.
LiveOutputFiles == {Absent, File(WorldBytes, TRUE, TRUE), File(WorldBytes, TRUE, FALSE)}

LiveInit ==
  /\ Init
  /\ argv = <<>>
  /\ fs[HelloWorldTxt] \in LiveOutputFiles

FairSpec == LiveInit /\ [][Next]_vars /\ WF_vars(Next)

(***************************************************************************)
(* The HTTP scripts: http-requests and parse-json                          *)
(***************************************************************************)
\* how far around 400 and 500 the status codes are taken, and how many
\* 'data' events a response is delivered in at most
Margin == 2
MaxChunks == 3

HttpPrograms == {"http-requests", "parse-json"}

\* the status codes a server answers with
StatusCodes ==
  {100, 200, 301, 999} \cup ((400 - Margin)..(400 + Margin))
                       \cup ((500 - Margin)..(500 + Margin))

\* [mutant of IsClientError] 400 itself is left out
IsClientErrorAbove400(statusCode) == statusCode > 400 /\ statusCode < 500

\* function isClientError(statusCode)
IsClientError(statusCode) == statusCode >= 400 /\ statusCode < 500

\* function isServerError(statusCode)
IsServerError(statusCode) == statusCode >= 500

\* `${n}` for a number n >= 0: its decimal digits
RECURSIVE NumberToString(_)
NumberToString(n) ==
  IF n < 10 THEN <<48 + n>> ELSE NumberToString(n \div 10) \o <<48 + (n % 10)>>

\* [mutant of StringPlus] the chunk replaces what was collected
StringPlusOverwrite(str, chunk) == Utf8Decode(chunk)

\* str + chunk for a string and a Buffer: the Buffer is converted with
\* toString() and appended
StringPlus(str, chunk) == str \o Utf8Decode(chunk)

\* JSON values: a scalar is its JSON text, a property that is not there
\* reads as undefined, an object is its properties and an array its items
JsUndefined == "undefined"
NoFields == [f \in {} |-> JsUndefined]
JsonObject(fields) == [kind |-> "object", fields |-> fields]
JsonNull == [kind |-> "null", fields |-> NoFields]
JsonNumber == [kind |-> "number", fields |-> NoFields]
JsonArray(items) == [kind |-> "array", items |-> items]
JsonNoArray(kind) == [kind |-> kind, items |-> <<>>]

\* the JSON texts a server sends, as code points
TextEmptyArray == <<91, 93>>                           \* []
TextObject == <<123, 125>>                             \* {}
TextNullItem == <<91, 110, 117, 108, 108, 93>>         \* [null]
TextNumberItem == <<91, 49, 93>>                       \* [1]
TextHtml == <<60>>                                     \* <
\* {"name":"a","description":null,"id":1}
TextRepoA ==
  <<123, 34, 110, 97, 109, 101, 34, 58, 34, 97, 34, 44, 34, 100, 101, 115, 99, 114,
    105, 112, 116, 105, 111, 110, 34, 58, 110, 117, 108, 108, 44, 34, 105, 100, 34,
    58, 49, 125>>
\* {"fork":true}
TextRepoB == <<123, 34, 102, 111, 114, 107, 34, 58, 116, 114, 117, 101, 125>>
TextRepos == <<91>> \o TextRepoA \o <<44>> \o TextRepoB \o <<93>>
TextReposReversed == <<91>> \o TextRepoB \o <<44>> \o TextRepoA \o <<93>>

RepoA == JsonObject([name |-> "\"a\"", description |-> "null", id |-> "1"])
RepoB == JsonObject([fork |-> "true"])

\* JSON.parse(text) on the texts above; on every other text that occurs
\* here (the empty one, "<") it throws a SyntaxError
JsonParse(text) ==
  CASE text = TextEmptyArray -> JsonArray(<<>>)
    [] text = TextObject -> JsonNoArray("object")
    [] text = TextNullItem -> JsonArray(<<JsonNull>>)
    [] text = TextNumberItem -> JsonArray(<<JsonNumber>>)
    [] text = TextRepos -> JsonArray(<<RepoA, RepoB>>)
    [] text = TextReposReversed -> JsonArray(<<RepoB, RepoA>>)
    [] OTHER -> JsonNoArray("invalid")

\* [mutant of Project] the element is passed on with the properties it has
ProjectAll(item) == item.fields

\* ({ name, description, fork }) => ({ name, description, fork })
Project(item) ==
  [f \in {"name", "description", "fork"} |->
     IF f \in DOMAIN item.fields THEN item.fields[f] ELSE JsUndefined]

\* what JSON.parse(buf).map(...) throws on the parsed value: the text is
\* no JSON, the value has no map (it is no array), or an item is null and
\* cannot be destructured
MapErr(value) ==
  IF value.kind = "invalid" THEN Err("SyntaxError", "JSON.parse", "")
  ELSE IF value.kind # "array" THEN Err("TypeError", "map", "")
  ELSE IF \E i \in DOMAIN value.items : value.items[i].kind = "null"
  THEN Err("TypeError", "map", "")
  ELSE NoErr

\* the bodies a server sends: to http-requests any bytes (here with the
\* two bytes of one character), to parse-json a JSON text or something else
Bodies(prog) ==
  IF prog = "http-requests"
  THEN {<<>>, <<97>>, <<195, 169>>, <<97, 195, 169, 98>>}
  ELSE {Utf8Encode(t) : t \in {<<>>, TextEmptyArray, TextObject, TextNullItem,
                                TextNumberItem, TextHtml, TextRepos, TextReposReversed}}

\* get({ host, path, headers }, callback).on('error', listener): the request
\* is sent and the script ends; the process waits for events
Get ==
  /\ program \in HttpPrograms /\ pc = "get"
  /\ pc' = "sent"
  /\ UNCHANGED <<program, argv, fs, wfVars, rfVars, stdout, thrown, status, calls, fs0,
                 rerunVars, concVars, httpVars>>

\* the callback of get: a response with some status code has begun; buf is
\* declared and the two listeners are registered
OnResponse ==
  /\ program \in HttpPrograms /\ pc = "sent"
  /\ \E statusCode \in StatusCodes, body \in Bodies(program) :
       /\ res' = [statusCode |-> statusCode]
       /\ rest' = body
  /\ buf' = <<>>
  /\ pc' = "receiving"
  /\ UNCHANGED <<program, argv, fs, wfVars, rfVars, stdout, thrown, status, calls, fs0,
                 rerunVars, concVars, chunks, repositories>>

\* the 'data' listener: the next bytes of the body arrive as one chunk
OnData ==
  /\ program \in HttpPrograms /\ pc = "receiving"
  /\ \E k \in 1..Len(rest) :
       /\ Len(chunks) + 1 < MaxChunks \/ k = Len(rest)
       /\ LET chunk == SubSeq(rest, 1, k)
          IN /\ buf' = StringPlus(buf, chunk)
             /\ chunks' = Append(chunks, chunk)
       /\ rest' = SubSeq(rest, k + 1, Len(rest))
  /\ UNCHANGED <<program, argv, fs, pc, wfVars, rfVars, stdout, thrown, status, calls, fs0,
                 rerunVars, concVars, res, repositories>>

\* [mutant of OnEnd] the status is checked before the body is logged
OnEndChecksFirst ==
  /\ program = "http-requests" /\ pc = "receiving" /\ rest = <<>>
  /\ pc' = "ended"
  /\ IF IsClientError(res.statusCode)
     THEN /\ thrown' = Msg("Got client error: ", NoErr, NumberToString(res.statusCode))
          /\ status' = "uncaught"
          /\ UNCHANGED stdout
     ELSE IF IsServerError(res.statusCode)
     THEN /\ thrown' = Msg("Got server error: ", NoErr, NumberToString(res.statusCode))
          /\ status' = "uncaught"
          /\ UNCHANGED stdout
     ELSE /\ stdout' = Append(stdout, Msg("Response: ", NoErr, buf))
          /\ status' = "exit0"
          /\ UNCHANGED thrown
  /\ UNCHANGED <<program, argv, fs, wfVars, rfVars, calls, fs0, rerunVars, concVars, httpVars>>

\* the 'end' listener of http-requests: the body is logged, then a status
\* code of 400 or more is thrown; a throw in a listener is uncaught
OnEnd ==
  /\ program = "http-requests" /\ pc = "receiving" /\ rest = <<>>
  /\ stdout' = Append(stdout, Msg("Response: ", NoErr, buf))
  /\ pc' = "ended"
  /\ IF IsClientError(res.statusCode)
     THEN /\ thrown' = Msg("Got client error: ", NoErr, NumberToString(res.statusCode))
          /\ status' = "uncaught"
     ELSE IF IsServerError(res.statusCode)
     THEN /\ thrown' = Msg("Got server error: ", NoErr, NumberToString(res.statusCode))
          /\ status' = "uncaught"
     ELSE /\ status' = "exit0"
          /\ UNCHANGED thrown
  /\ UNCHANGED <<program, argv, fs, wfVars, rfVars, calls, fs0, rerunVars, concVars, httpVars>>

\* JSON.parse(buf).map(...) and console.log('Result is:\n', repositories)
ParseAndLog ==
  LET value == JsonParse(buf)
  IN /\ calls' = Append(calls, Call("JSON.parse", "", IF value.kind = "invalid"
                                                       THEN MapErr(value) ELSE NoErr))
     /\ IF MapErr(value) = NoErr
        THEN /\ repositories' = [i \in DOMAIN value.items |-> Project(value.items[i])]
             /\ stdout' = Append(stdout, Msg("Result is:\n", NoErr, <<>>))
             /\ status' = "exit0"
             /\ UNCHANGED thrown
        ELSE /\ thrown' = Msg("", MapErr(value), <<>>)
             /\ status' = "uncaught"
             /\ UNCHANGED <<repositories, stdout>>

\* [mutant of OnEndParse] the body is parsed and logged before the status
\* is checked
OnEndParseFirst ==
  /\ program = "parse-json" /\ pc = "receiving" /\ rest = <<>>
  /\ pc' = "ended"
  /\ IF MapErr(JsonParse(buf)) # NoErr
     THEN ParseAndLog
     ELSE /\ calls' = Append(calls, Call("JSON.parse", "", NoErr))
          /\ repositories' = [i \in DOMAIN JsonParse(buf).items |->
                                Project(JsonParse(buf).items[i])]
          /\ stdout' = Append(stdout, Msg("Result is:\n", NoErr, <<>>))
          /\ IF IsClientError(res.statusCode)
             THEN /\ thrown' = Msg("Got client error: ", NoErr, NumberToString(res.statusCode))
                  /\ status' = "uncaught"
             ELSE IF IsServerError(res.statusCode)
             THEN /\ thrown' = Msg("Got server error: ", NoErr, NumberToString(res.statusCode))
                  /\ status' = "uncaught"
             ELSE /\ status' = "exit0"
                  /\ UNCHANGED thrown
  /\ UNCHANGED <<program, argv, fs, wfVars, rfVars, fs0, rerunVars, concVars,
                 res, rest, chunks, buf>>

\* the 'end' listener of parse-json: a status code of 400 or more is
\* thrown; otherwise the body is parsed, mapped and logged
OnEndParse ==
  /\ program = "parse-json" /\ pc = "receiving" /\ rest = <<>>
  /\ pc' = "ended"
  /\ IF IsClientError(res.statusCode)
     THEN /\ thrown' = Msg("Got client error: ", NoErr, NumberToString(res.statusCode))
          /\ status' = "uncaught"
          /\ UNCHANGED <<calls, repositories, stdout>>
     ELSE IF IsServerError(res.statusCode)
     THEN /\ thrown' = Msg("Got server error: ", NoErr, NumberToString(res.statusCode))
          /\ status' = "uncaught"
          /\ UNCHANGED <<calls, repositories, stdout>>
     ELSE ParseAndLog
  /\ UNCHANGED <<program, argv, fs, wfVars, rfVars, fs0, rerunVars, concVars,
                 res, rest, chunks, buf>>

\* the 'error' listener of the request: no response came, or the connection
\* broke while the body was arriving
OnError ==
  /\ program \in HttpPrograms /\ pc \in {"sent", "receiving"}
  /\ Throw("Couldn't send request.")
  /\ UNCHANGED <<program, argv, fs, wfVars, rfVars, stdout, calls, fs0,
                 rerunVars, concVars, httpVars>>

\* the server closes the connection before the body is complete: the
\* response emits no 'end', no listener of the script runs and the process
\* has nothing left to wait for
Aborted ==
  /\ program \in HttpPrograms /\ pc = "receiving" /\ rest # <<>>
  /\ pc' = "closed"
  /\ status' = "exit0"
  /\ UNCHANGED <<program, argv, fs, wfVars, rfVars, stdout, thrown, calls, fs0,
                 rerunVars, concVars, httpVars>>

InitHttp ==
  /\ program \in HttpPrograms
  /\ argv = <<>>
  /\ fs = [p \in Paths |-> Absent]
  /\ pc = "get"
  /\ hello = Undefined /\ world = Undefined /\ helloWorld = Undefined
  /\ fileDescriptor = NoFd /\ stat = NoStat /\ buffer = <<>> /\ data = Undefined
  /\ stdout = <<>>
  /\ thrown = NoMsg
  /\ status = "running"
  /\ calls = <<>>
  /\ fs0 = fs
  /\ NoHttp
  /\ run = 1 /\ first = NoRun
  /\ config = "none" /\ cfs = <<>> /\ cfs0 = <<>> /\ procs = <<>>

NextHttp ==
  \/ Get
  \/ OnResponse
  \/ OnData
  \/ OnEnd
  \/ OnEndParse
  \/ OnError
  \/ Aborted

SpecHttp == InitHttp /\ [][NextHttp]_vars

(***************************************************************************)
(* Properties of the file pipeline (write-files) and of its failure        *)
(* reports                                                                 *)
(***************************************************************************)
WriteFiles == program = "write-files"
ReadFiles == program = "read-files"

\* the stage a failure message of write-files names
StageOf(text) ==
  IF text = "Couldn't read 'hello.txt'." THEN "read-first"
  ELSE IF text = "Couldn't read 'world.txt'." THEN "read-second"
  ELSE IF text = "Couldn't write 'hello-world.txt'." THEN "write"
  ELSE "none"

\* the literal with which read-files reports a failed call
TextOf(fn) ==
  IF fn = "openSync" THEN "Couldn't open: "
  ELSE IF fn = "fstatSync" THEN "Couldn't get stat: "
  ELSE IF fn = "readSync" THEN "Couldn't read: "
  ELSE "none"

\* the stage a failed call of write-files belongs to
StageOfCall(c) ==
  IF c.fn = "writeFileSync" THEN "write"
  ELSE IF c.path = HelloTxt THEN "read-first"
  ELSE "read-second"

LastCall == calls[Len(calls)]
LastCallFailed == calls # <<>> /\ LastCall.err # NoErr
SomeReadFailed == \E i \in DOMAIN calls : calls[i].fn = "readFileSync" /\ calls[i].err # NoErr
SomeWrite == \E i \in DOMAIN calls : calls[i].fn = "writeFileSync"
FirstReadFailed == WriteFiles /\ Len(calls) >= 1 /\ calls[1].err # NoErr
SecondReadFailed ==
  WriteFiles /\ Len(calls) >= 2 /\ calls[1].err = NoErr /\ calls[2].err # NoErr
WriteFailed == WriteFiles /\ Len(calls) >= 3 /\ calls[3].err # NoErr
Succeeded == WriteFiles /\ status = "exit0"

\* the message with which the process reported its failure: the uncaught
\* thrown string, or the last line logged before process.exit(1)
FailureMsg ==
  IF status = "uncaught" THEN thrown
  ELSE IF status = "exit1" /\ stdout # <<>> THEN stdout[Len(stdout)]
  ELSE NoMsg

\* C1: the output file is written only after hello.txt and then world.txt
\* have been read successfully and the result has been composed; a run in
\* which a read failed makes no write call and leaves the output file as
\* it was.
C1_WriteOnlyAfterBothReads ==
  WriteFiles =>
    /\ \A i \in DOMAIN calls :
         calls[i].fn = "writeFileSync" =>
           /\ \E j \in 1..(i - 1) : \E k \in (j + 1)..(i - 1) :
                /\ calls[j] = Call("readFileSync", HelloTxt, NoErr)
                /\ calls[k] = Call("readFileSync", WorldTxt, NoErr)
           /\ hello # Undefined /\ world # Undefined /\ helloWorld # Undefined
    /\ SomeReadFailed => ~SomeWrite /\ fs[HelloWorldTxt] = fs0[HelloWorldTxt]
    /\ fs[HelloWorldTxt] # fs0[HelloWorldTxt] => SomeWrite

C1_Witness == WriteFiles /\ SomeWrite /\ fs[HelloWorldTxt] # fs0[HelloWorldTxt]

\* C2 as stated: when the read of hello.txt fails, the failure reported
\* names the stage read-first and carries the underlying cause, and no
\* further call is made.
C2_Original ==
  FirstReadFailed =>
    /\ pc = "done"
    /\ StageOf(FailureMsg.text) = "read-first"
    /\ FailureMsg.err = calls[1].err
    /\ Len(calls) = 1

\* C2 amended: when the read of hello.txt fails, for whatever cause, the
\* script ends at once with the thrown string "Couldn't read 'hello.txt'.",
\* which names the failed read but carries no underlying cause; world.txt
\* is not read and nothing is written.
C2_FirstReadFailure ==
  FirstReadFailed =>
    /\ pc = "done" /\ status = "uncaught"
    /\ thrown = Msg("Couldn't read 'hello.txt'.", NoErr, <<>>)
    /\ Len(calls) = 1
    /\ world = Undefined /\ helloWorld = Undefined
    /\ fs = fs0 /\ stdout = <<>>

C2_Witness == FirstReadFailed /\ calls[1].err.code = "EACCES" /\ fs0[WorldTxt].readable

\* C3: when hello.txt was read and the read of world.txt fails, the script
\* ends at once with a failure of stage read-second, what was read from
\* hello.txt appears nowhere (not in the failure, the output or the files)
\* and no write is attempted.
C3_SecondReadFailure ==
  SecondReadFailed =>
    /\ pc = "done" /\ status # "running" /\ status # "exit0"
    /\ StageOf(FailureMsg.text) = "read-second"
    /\ FailureMsg.str = <<>>
    /\ stdout = <<>>
    /\ Len(calls) = 2
    /\ helloWorld = Undefined
    /\ fs = fs0

C3_Witness ==
  SecondReadFailed /\ hello = Utf8Decode(HelloBytes) /\ calls[2].err.code = "ENOENT"

\* C4: whenever the script ends with a read failure, the output file is
\* exactly as before: same content if it existed, still missing if not.
C4_ReadFailureLeavesOutput ==
  (WriteFiles /\ pc = "done"
     /\ StageOf(FailureMsg.text) \in {"read-first", "read-second"})
    => /\ fs[HelloWorldTxt].exists = fs0[HelloWorldTxt].exists
       /\ fs[HelloWorldTxt].bytes = fs0[HelloWorldTxt].bytes
       /\ fs[HelloWorldTxt] = fs0[HelloWorldTxt]

C4_Witness ==
  /\ WriteFiles /\ pc = "done"
  /\ StageOf(FailureMsg.text) = "read-second"
  /\ fs0[HelloWorldTxt].exists /\ fs0[HelloWorldTxt].writable
  /\ fs0[HelloWorldTxt].bytes # <<>>
  /\ hello # <<>>

\* C5 as stated: a successful run composes first + separator + second +
\* suffix for the separator and suffix passed to it.
C5_Original ==
  (Succeeded /\ Len(argv) = 2) =>
    helloWorld = Utf8Decode(fs0[HelloTxt].bytes) \o argv[1]
                   \o Utf8Decode(fs0[WorldTxt].bytes) \o argv[2]

\* C5 amended: for all contents first and second of the two input files, a
\* successful run composes exactly first + " " + second + "!"; separator
\* and suffix are fixed literals, whatever is passed on the command line.
C5_ComposedString ==
  Succeeded =>
    /\ helloWorld = Utf8Decode(fs0[HelloTxt].bytes) \o <<32>>
                      \o Utf8Decode(fs0[WorldTxt].bytes) \o <<33>>
    /\ stdout = <<Msg("Wrote file 'hello-world.txt' with content: ", NoErr, helloWorld)>>

C5_Witness == Succeeded /\ argv = <<<<45>>, <<63>>>> /\ hello # <<>> /\ world # <<>>

\* C6: with no separator and suffix supplied, inputs holding "Hello" and
\* "world" give the composed string "Hello world!".
C6_HelloWorldDefault ==
  (Succeeded /\ argv = <<>>
     /\ fs0[HelloTxt].bytes = HelloBytes /\ fs0[WorldTxt].bytes = WorldBytes)
    => helloWorld = <<72, 101, 108, 108, 111, 32, 119, 111, 114, 108, 100, 33>>

C6_Witness ==
  /\ Succeeded /\ argv = <<>>
  /\ fs0[HelloTxt].bytes = HelloBytes /\ fs0[WorldTxt].bytes = WorldBytes

\* C7: after a successful run, reading the output file gives exactly the
\* composed string, whatever the file held before; nothing of the prior
\* content remains.
C7_ReadBackOutput ==
  Succeeded =>
    /\ fs[HelloWorldTxt].exists
    /\ Utf8Decode(fs[HelloWorldTxt].bytes) = helloWorld
    /\ Len(fs[HelloWorldTxt].bytes) = Len(Utf8Encode(helloWorld))

C7_Witness ==
  /\ Succeeded
  /\ fs0[HelloWorldTxt].exists
  /\ Len(fs0[HelloWorldTxt].bytes) > Len(fs[HelloWorldTxt].bytes)

\* C8 as stated: when both reads succeed and the write is rejected, the
\* failure is of stage write and the composed string is part of it.
C8_Original ==
  WriteFailed =>
    /\ StageOf(FailureMsg.text) = "write"
    /\ FailureMsg.str = helloWorld

\* C8 amended: when both reads succeed and the write is rejected, the
\* script ends with the thrown string "Couldn't write 'hello-world.txt'.";
\* the composed string is not part of the failure and nothing is logged.
C8_WriteFailure ==
  WriteFailed =>
    /\ calls[1].err = NoErr /\ calls[2].err = NoErr
    /\ pc = "done" /\ status = "uncaught"
    /\ thrown = Msg("Couldn't write 'hello-world.txt'.", NoErr, <<>>)
    /\ stdout = <<>>

C8_Witness ==
  WriteFailed /\ calls[3].err.code = "EACCES" /\ helloWorld # Undefined /\ Len(helloWorld) > 2

\* C9 as stated: every failure is reported with the stage that failed and
\* the cause of the underlying error; none has its cause dropped.
C9_Original ==
  (pc = "done" /\ LastCallFailed) =>
    /\ FailureMsg # NoMsg
    /\ FailureMsg.err = LastCall.err

\* C9 amended: every failure is reported with a message that names the step
\* that failed; read-files appends the message of the underlying error,
\* write-files drops the underlying cause from what it throws.
C9_FailureReport ==
  LastCallFailed =>
    /\ pc = "done"
    /\ ReadFiles => /\ status = "exit1"
                    /\ FailureMsg = Msg(TextOf(LastCall.fn), LastCall.err, <<>>)
                    /\ TextOf(LastCall.fn) # "none"
    /\ WriteFiles => /\ status = "uncaught"
                     /\ StageOf(FailureMsg.text) = StageOfCall(LastCall)
                     /\ FailureMsg.err = NoErr

C9_Witness ==
  /\ ReadFiles /\ LastCallFailed
  /\ LastCall.fn = "readSync" /\ stdout # <<>>

\* C10 as stated: on no path does a failure leave the operation as a
\* thrown exception.
C10_Original == WriteFiles => status # "uncaught"

\* C10 amended: failures of write-files are not returned values: each
\* failed read or write, and nothing else, leaves the script as an uncaught
\* thrown string naming the step; the script never calls process.exit.
C10_FailuresAreThrown ==
  WriteFiles =>
    /\ (status = "uncaught") <=> LastCallFailed
    /\ status = "uncaught" => pc = "done" /\ StageOf(thrown.text) # "none"
    /\ status # "uncaught" => thrown = NoMsg
    /\ status # "exit1"

C10_Witness ==
  WriteFiles /\ status = "uncaught" /\ StageOf(thrown.text) = "write"
    /\ fs[HelloWorldTxt] # fs0[HelloWorldTxt]

\* C11 as stated: after any failed read or write the process is still
\* running.
C11_Original == LastCallFailed => status = "running"

\* C11 amended: every failure inside the file pipeline ends the host
\* process: after a failed read or write the script is over and the process
\* is not running any more (write-files by its uncaught throw, read-files by
\* process.exit(1)); no caller gets to decide.
C11_FailureEndsProcess ==
  LastCallFailed =>
    /\ pc = "done"
    /\ status # "running"
    /\ status \in (IF WriteFiles THEN {"uncaught"} ELSE {"exit1"})

C11_Witness ==
  WriteFiles /\ LastCallFailed /\ LastCall.fn = "readFileSync" /\ LastCall.path = WorldTxt
    /\ LastCall.err.code = "EIO"

\* the fs call each step of write-files makes (compose and log make none)
CallOfStep(step) ==
  IF step = "readHello" THEN <<"readFileSync", HelloTxt>>
  ELSE IF step = "readWorld" THEN <<"readFileSync", WorldTxt>>
  ELSE <<"writeFileSync", HelloWorldTxt>>

NextStep(step) ==
  IF step = "readHello" THEN "readWorld"
  ELSE IF step = "readWorld" THEN "compose"
  ELSE IF step = "compose" THEN "write"
  ELSE IF step = "write" THEN "log"
  ELSE "done"

C12_Step ==
  WriteFiles =>
    /\ pc # "done"
    /\ pc' \in {NextStep(pc), "done"}
    /\ IF pc \in {"readHello", "readWorld", "write"}
       THEN /\ Len(calls') = Len(calls) + 1
            /\ SubSeq(calls', 1, Len(calls)) = calls
            /\ <<calls'[Len(calls')].fn, calls'[Len(calls')].path>> = CallOfStep(pc)
            /\ (pc' = NextStep(pc)) <=> (calls'[Len(calls')].err = NoErr)
       ELSE /\ calls' = calls
            /\ pc' = NextStep(pc)
    /\ pc' = "compose" => hello' # Undefined /\ world' # Undefined
    /\ pc' = "write" => helloWorld' # Undefined
    /\ pc = "compose" => helloWorld = Undefined

\* C12: the steps run strictly in the order read first, read second,
\* compose, write: every step of the script goes from one stage to the next
\* stage or, exactly when its call failed, to the end; a later stage is
\* never entered before the earlier ones have completed.
C12_StepsInOrder == [][C12_Step]_vars

C12_Witness ==
  /\ WriteFiles /\ pc = "done" /\ Len(calls) = 3
  /\ calls[3] = Call("writeFileSync", HelloWorldTxt, NoErr)

\* C13: the only file the pipeline changes is the output file, and only in
\* its write step: hello.txt and world.txt are as they were at the start in
\* every state, and until the write step has run the whole file system is.
C13_OnlyOutputWritten ==
  WriteFiles =>
    /\ \A p \in Paths \ {HelloWorldTxt} : fs[p] = fs0[p]
    /\ pc \in {"readHello", "readWorld", "compose", "write"} => fs = fs0

C13_Witness ==
  /\ WriteFiles /\ fs # fs0
  /\ fs0[HelloTxt].bytes # <<>> /\ fs0[WorldTxt].bytes # <<>>

\* C14: nothing is retried: no fs call occurs twice in one run, and a
\* failed call is the last call of the run.
C14_NoRetry ==
  WriteFiles =>
    /\ \A i, j \in DOMAIN calls :
         i # j => <<calls[i].fn, calls[i].path>> # <<calls[j].fn, calls[j].path>>
    /\ \A i \in DOMAIN calls : calls[i].err # NoErr => i = Len(calls)
    /\ Len(calls) <= 3

C14_Witness ==
  /\ WriteFiles /\ pc = "done" /\ Len(calls) = 3
  /\ calls[3].err.code = "ENOSPC"

ExitCode ==
  IF status = "exit0" THEN 0
  ELSE IF status \in {"exit1", "uncaught"} THEN 1
  ELSE -1

\* the custom message the catch block around a call emits
CustomMessage(c) ==
  IF ReadFiles THEN TextOf(c.fn)
  ELSE IF c.fn = "writeFileSync" THEN "Couldn't write 'hello-world.txt'."
  ELSE IF c.path = HelloTxt THEN "Couldn't read 'hello.txt'."
  ELSE "Couldn't read 'world.txt'."

\* C20: the throw style of write-files and the log-and-exit style of
\* read-files do the same when a guarded step fails: the custom message of
\* that step is emitted, no later step runs (nothing else is logged, no
\* further call is made, no file is changed by a later step) and the
\* process ends with exit code 1.
C20_SameFailureBehaviour ==
  LastCallFailed =>
    /\ FailureMsg.text = CustomMessage(LastCall)
    /\ pc = "done"
    /\ ExitCode = 1
    /\ \A i \in DOMAIN stdout :
         stdout[i].text \notin {"Content is: ", "Wrote file 'hello-world.txt' with content: "}
    /\ Len(stdout) = (IF ReadFiles THEN 1 ELSE 0)
    /\ data = Undefined
    /\ LastCall.fn # "writeFileSync" => fs = fs0

C20_Witness ==
  /\ ReadFiles /\ LastCallFailed
  /\ LastCall.fn = "openSync" /\ LastCall.err.code = "ENOENT"
  /\ ExitCode = 1

\* the run is over with one outcome: either the success line was logged
\* and nothing was thrown, or a string was thrown and nothing was logged
Finished ==
  /\ pc = "done"
  /\ \/ status = "exit0" /\ thrown = NoMsg /\ Len(stdout) = 1
     \/ status = "uncaught" /\ thrown # NoMsg /\ stdout = <<>>

\* C19: as every fs call returns, each run of the pipeline eventually
\* finishes, with exactly one outcome, success or failure, and stays
\* finished; once it has finished it makes no further fs call and changes
\* no file.
C19_FinishesOnce ==
  /\ WriteFiles => <>[]Finished
  /\ [][(WriteFiles /\ pc = "done") => (calls' = calls /\ fs' = fs /\ pc' = "done")]_vars

C19_Witness ==
  /\ WriteFiles /\ Finished /\ status = "uncaught"
  /\ LastCall.fn = "writeFileSync" /\ LastCall.err.code = "EIO"

\* C15: when the script is run twice in sequence in the same directory and
\* both runs succeed, the second run composes the same string, logs the
\* same line and leaves the output file exactly as the first run left it.
C15_SecondRunSame ==
  (WriteFiles /\ run = 2 /\ first.status = "exit0") =>
    /\ helloWorld \in {Undefined, first.helloWorld}
    /\ status = "exit0" =>
         /\ helloWorld = first.helloWorld
         /\ stdout = first.stdout
         /\ fs[HelloWorldTxt] = first.out

C15_Witness ==
  /\ WriteFiles /\ run = 2 /\ first.status = "exit0" /\ status = "exit0"
  /\ hello # <<>> /\ world # <<>>

\* the string process p composes when it runs alone on the files present at
\* the start
AloneString(p) ==
  Utf8Decode(cfs0[Resolve(p, HelloTxt)].bytes) \o <<32>>
    \o Utf8Decode(cfs0[Resolve(p, WorldTxt)].bytes) \o <<33>>

IsPrefix(a, b) == Len(a) <= Len(b) /\ SubSeq(b, 1, Len(a)) = a

\* process p and its output file are in a state that p reaches when it runs
\* alone from the files present at the start
AsIfAlone(p) ==
  LET pr == procs[p]
      out == cfs[Resolve(p, HelloWorldTxt)]
      out0 == cfs0[Resolve(p, HelloWorldTxt)]
      n == Len(pr.calls)
  IN /\ n >= 1 => pr.calls[1].err \in ReadFileSyncErrs(cfs0, Resolve(p, HelloTxt))
     /\ n >= 2 => pr.calls[2].err \in ReadFileSyncErrs(cfs0, Resolve(p, WorldTxt))
     /\ pr.hello \in {Undefined, Utf8Decode(cfs0[Resolve(p, HelloTxt)].bytes)}
     /\ pr.world \in {Undefined, Utf8Decode(cfs0[Resolve(p, WorldTxt)].bytes)}
     /\ pr.helloWorld \in {Undefined, AloneString(p)}
     \* before its write, and after a failed read or a refused open, the
     \* output file is as at the start
     /\ (n < 3 /\ pr.pc # "writing") => out = out0
     /\ (n = 3 /\ pr.calls[3].err.code = "EACCES") => out = out0 /\ ~out0.writable
     \* between open and write it is empty
     /\ pr.pc = "writing" => out.exists /\ out.bytes = <<>> /\ (out0.exists => out0.writable)
     \* after the write it holds the composed string, or a proper part of it
     \* when the write failed
     /\ (n = 3 /\ pr.calls[3].err = NoErr) => out.bytes = Utf8Encode(AloneString(p))
     /\ (n = 3 /\ pr.calls[3].err.code \in {"ENOSPC", "EIO"}) =>
          /\ IsPrefix(out.bytes, Utf8Encode(AloneString(p)))
          /\ out.bytes # Utf8Encode(AloneString(p))
     /\ pr.status = "exit0" =>
          pr.stdout = <<Msg("Wrote file 'hello-world.txt' with content: ", NoErr,
                            AloneString(p))>>

SharedOutput == cfs[InDir("a", HelloWorldTxt)]

\* C17: the script takes no lock: a run that has not ended can always take
\* its next step, wherever the other run is, also inside the other's write
\* to the same file.  When both runs succeeded on one output file, the file
\* begins with the string of one of them and is no longer than the longer
\* string; it need not be either string (witness).
C17_NoLocking ==
  config # "none" =>
    /\ \A p \in Procs : procs[p].pc # "done" => ENABLED CStep(p)
    /\ (config \in {"same-dir", "linked-output"}
          /\ \A p \in Procs : procs[p].status = "exit0") =>
         /\ \E p \in Procs : IsPrefix(Utf8Encode(procs[p].helloWorld), SharedOutput.bytes)
         /\ \E p \in Procs : Len(SharedOutput.bytes) = Len(Utf8Encode(procs[p].helloWorld))

\* both runs reported success and the file they share holds the composed
\* string of neither
C17_Witness ==
  /\ config = "linked-output"
  /\ \A p \in Procs : procs[p].status = "exit0"
  /\ \A p \in Procs : SharedOutput.bytes # Utf8Encode(procs[p].helloWorld)

\* the bytes are well-formed UTF-8 that holds no U+FFFD: decoding them
\* replaces nothing
WellFormed(bytes) ==
  \A i \in DOMAIN Utf8Decode(bytes) : Utf8Decode(bytes)[i] # ReplacementChar

\* read-files has logged the content of the file
ContentLogged ==
  ReadFiles /\ status = "exit0" /\ Len(stdout) = 1 /\ stdout[1].text = "Content is: "

\* C21 as stated: for every content of hello.txt, when the four steps
\* complete the string logged after "Content is: " is the content of the
\* file, no more and no less than its stat.size bytes.
C21_Original ==
  ContentLogged =>
    /\ Utf8Encode(stdout[1].str) = fs[HelloTxt].bytes
    /\ Len(Utf8Encode(stdout[1].str)) = stat.size

\* C21 amended: when the four steps complete, the buffer holds the stat.size
\* bytes of the file, all of them and nothing else, and the string logged
\* after "Content is: " is the UTF-8 decoding of these bytes.  For every
\* well-formed content it is the complete content of the file, no more and
\* no less than its stat.size bytes; every malformed byte sequence of the
\* content is logged as U+FFFD.
C21_WholeFile ==
  (ReadFiles /\ status = "exit0") =>
    /\ stat.size = Len(fs[HelloTxt].bytes)
    /\ buffer = fs[HelloTxt].bytes
    /\ stdout = <<Msg("Content is: ", NoErr, Utf8Decode(fs[HelloTxt].bytes))>>
    /\ WellFormed(fs[HelloTxt].bytes) =>
         /\ Utf8Encode(stdout[1].str) = fs[HelloTxt].bytes
         /\ Len(Utf8Encode(stdout[1].str)) = stat.size
    /\ ~WellFormed(fs[HelloTxt].bytes) =>
         \E i \in DOMAIN stdout[1].str : stdout[1].str[i] = ReplacementChar

C21_Witness ==
  ContentLogged /\ WellFormed(fs[HelloTxt].bytes) /\ stat.size = MaxLen

\* the message of the catch block around the step that makes the fs call fn
\* and around buffer.toString()
MessageOfStep(fn) ==
  IF fn = "openSync" THEN "Couldn't open: "
  ELSE IF fn = "fstatSync" THEN "Couldn't get stat: "
  ELSE IF fn = "readSync" THEN "Couldn't read: "
  ELSE "Couldn't convert buffer to string: "

\* the fs calls of read-files, in the order of the script
ReadFilesCalls == <<"openSync", "fstatSync", "readSync">>

C28_SuccessLoggedOnce ==
  WriteFiles =>
    /\ Len(stdout) <= 1
    /\ stdout # <<>> =>
         /\ Len(calls) = 3
         /\ calls[3] = Call("writeFileSync", HelloWorldTxt, NoErr)
         /\ stdout[1] = Msg("Wrote file 'hello-world.txt' with content: ", NoErr, helloWorld)
         /\ fs[HelloWorldTxt].bytes = Utf8Encode(stdout[1].str)
         /\ status = "exit0"
    /\ LastCallFailed => stdout = <<>> /\ status = "uncaught"
    /\ (pc = "done" /\ ~LastCallFailed) => Len(stdout) = 1

C28_Witness ==
  /\ WriteFiles /\ Len(stdout) = 1 /\ calls[3].err = NoErr
  /\ fs0[HelloWorldTxt].exists /\ fs0[HelloWorldTxt].bytes # fs[HelloWorldTxt].bytes

(***************************************************************************)
(* Properties of the HTTP scripts                                          *)
(***************************************************************************)
HttpRequests == program = "http-requests"
ParseJson == program = "parse-json"

\* the strings of the chunks, one after the other
RECURSIVE ChunksAsString(_)
ChunksAsString(cs) ==
  IF cs = <<>> THEN <<>>
  ELSE ChunksAsString(SubSeq(cs, 1, Len(cs) - 1)) \o Utf8Decode(cs[Len(cs)])

\* C23: the body is collected completely and in order.  While the response
\* arrives buf is the concatenation of the chunks the 'data' events have
\* delivered so far, in arrival order; the 'end' listener runs when nothing
\* of the body is left to arrive, and only then, and once, the response is
\* logged, as "Response: " with that concatenation.
C23_BodyCollected ==
  program \in HttpPrograms =>
    /\ res # NoRes => buf = ChunksAsString(chunks)
    /\ pc = "ended" => rest = <<>>
    /\ HttpRequests =>
         /\ pc = "ended" => stdout = <<Msg("Response: ", NoErr, ChunksAsString(chunks))>>
         /\ pc # "ended" => stdout = <<>>

C23_Witness ==
  /\ HttpRequests /\ pc = "ended" /\ Len(chunks) = 3
  /\ stdout[1].str = <<97, 233, 98>>

\* the 'error' listener of the request has run
ErrorListenerRan == thrown = Msg("Couldn't send request.", NoErr, <<>>)

\* C24: a response that was received is handled by the 'end' listener and
\* never by the 'error' listener of the request: when the 'end' listener has
\* run the body is logged, and after it "Got client error: <status>" is thrown
\* for a status code in 400..499, "Got server error: <status>" for one of
\* 500 or more, and nothing for one below 400; when the 'error' listener has
\* run, the 'end' listener has not and nothing is logged.
C24_StatusErrors ==
  HttpRequests =>
    /\ pc = "ended" =>
         /\ ~ErrorListenerRan
         /\ stdout = <<Msg("Response: ", NoErr, buf)>>
         /\ (res.statusCode >= 400 /\ res.statusCode <= 499) =>
              /\ thrown = Msg("Got client error: ", NoErr, NumberToString(res.statusCode))
              /\ status = "uncaught"
         /\ res.statusCode >= 500 =>
              /\ thrown = Msg("Got server error: ", NoErr, NumberToString(res.statusCode))
              /\ status = "uncaught"
         /\ res.statusCode < 400 => thrown = NoMsg /\ status = "exit0"
    /\ ErrorListenerRan => pc = "done" /\ stdout = <<>> /\ status = "uncaught"
    /\ thrown # NoMsg => ErrorListenerRan \/ (pc = "ended" /\ res.statusCode >= 400)

C24_Witness ==
  /\ HttpRequests /\ pc = "ended" /\ res.statusCode = 401
  /\ thrown = Msg("Got client error: ", NoErr, <<52, 48, 49>>)
  /\ stdout = <<Msg("Response: ", NoErr, <<97>>)>>

\* the list was logged
ResultLogged == stdout = <<Msg("Result is:\n", NoErr, <<>>)>>

\* C25 as stated: for every parsed response that is an array a list is
\* logged, and it has the length of the array.
C25_Original ==
  (ParseJson /\ pc = "ended" /\ res.statusCode < 400
     /\ JsonParse(ChunksAsString(chunks)).kind = "array") =>
    /\ ResultLogged
    /\ Len(repositories) = Len(JsonParse(ChunksAsString(chunks)).items)

\* C25 amended: for every parsed response that is an array without a null
\* element, and for no other response, the list is logged after
\* "Result is:"; it has as many elements as the array, in the same order,
\* and each element has exactly the properties name, description and fork,
\* with the values the element of the array has for them (undefined for one
\* it has not); every other property is dropped.  On an array with a null
\* element the mapping throws a TypeError and nothing is logged.
C25_Projection ==
  (ParseJson /\ pc = "ended" /\ res.statusCode < 400) =>
    LET parsed == JsonParse(ChunksAsString(chunks))
    IN /\ ResultLogged <=>
            /\ parsed.kind = "array"
            /\ \A i \in DOMAIN parsed.items : parsed.items[i].kind # "null"
       /\ (parsed.kind = "array" /\ ~ResultLogged) =>
            /\ thrown = Msg("", Err("TypeError", "map", ""), <<>>)
            /\ stdout = <<>> /\ status = "uncaught"
       /\ ResultLogged =>
            /\ Len(repositories) = Len(parsed.items)
            /\ \A i \in DOMAIN repositories :
                 /\ DOMAIN repositories[i] = {"name", "description", "fork"}
                 /\ \A f \in DOMAIN repositories[i] :
                      IF f \in DOMAIN parsed.items[i].fields
                      THEN repositories[i][f] = parsed.items[i].fields[f]
                      ELSE repositories[i][f] = JsUndefined

C25_Witness ==
  /\ ParseJson /\ ResultLogged /\ Len(repositories) = 2
  /\ repositories[1].name = "\"a\"" /\ repositories[1].description = "null"
  /\ repositories[1].fork = JsUndefined /\ repositories[2].fork = "true"
  /\ "id" \in DOMAIN JsonParse(buf).items[1].fields

\* C26: the status check precedes parsing.  JSON.parse is called, and
\* "Result is:" logged, only when the 'end' listener runs with a status
\* code below 400; with a 4xx or 5xx status the listener throws the status
\* error and nothing is parsed, mapped or logged.
C26_StatusBeforeParse ==
  ParseJson =>
    /\ calls # <<>> =>
         /\ pc = "ended" /\ res.statusCode < 400
         /\ Len(calls) = 1 /\ calls[1].fn = "JSON.parse"
    /\ stdout # <<>> => ResultLogged /\ calls = <<Call("JSON.parse", "", NoErr)>>
    /\ (pc = "ended" /\ res.statusCode < 400) => Len(calls) = 1
    /\ (pc = "ended" /\ res.statusCode >= 400) =>
         /\ calls = <<>> /\ stdout = <<>> /\ Len(repositories) = 0
         /\ status = "uncaught"
         /\ thrown.text \in {"Got client error: ", "Got server error: "}
         /\ thrown.str = NumberToString(res.statusCode)

C26_Witness ==
  /\ ParseJson /\ pc = "ended" /\ res.statusCode = 500
  /\ JsonParse(buf).kind = "array" /\ Len(JsonParse(buf).items) = 2
  /\ calls = <<>>

\* the error the 'end' listener threw for the status code, if any
StatusThrown ==
  IF thrown.text \in {"Got client error: ", "Got server error: "} THEN {thrown.text} ELSE {}

\* C27: for the status code of every response isClientError and
\* isServerError are not both true, and both are false exactly when the
\* code is below 400; so the 'end' listener throws one status error for a
\* code of 400 or more, the one of its class, and none below 400.
C27_ErrorClasses ==
  (program \in HttpPrograms /\ res # NoRes) =>
    /\ ~(IsClientError(res.statusCode) /\ IsServerError(res.statusCode))
    /\ (~IsClientError(res.statusCode) /\ ~IsServerError(res.statusCode))
         <=> res.statusCode < 400
    /\ pc = "ended" =>
         /\ StatusThrown = IF res.statusCode < 400 THEN {}
                           ELSE IF res.statusCode < 500 THEN {"Got client error: "}
                           ELSE {"Got server error: "}
         /\ res.statusCode >= 400 => status = "uncaught"
    /\ pc # "ended" => StatusThrown = {}

C27_Witness ==
  /\ ParseJson /\ pc = "ended" /\ res.statusCode = 400
  /\ StatusThrown = {"Got client error: "}

====
